---- MODULE Spec2Model ----
(***************************************************************************)
(* Model of yt_dlp/jsinterp/_deno.py (DenoJSI, DenoJSDomJSI) and of        *)
(* yt_dlp/extractor/faulio.py (FaulioLiveIE).                              *)
(*                                                                         *)
(* Text is modelled as a sequence of one-character strings, so that        *)
(* str.lstrip, str.strip and str() are computed and not assumed.  Python's *)
(* None (JSON null) is the one-element sequence None below, which is no    *)
(* text because its element is longer than one character.                  *)
(***************************************************************************)
EXTENDS Integers, Sequences, FiniteSets, TLC

VARIABLES
    phase,        \* cookie translation: which call has been made last
    cookiejar,    \* cookie translation: the host cookie jar (YoutubeDLCookieJar | None)
    url,          \* cookie translation: the scope url of serialize_cookie
    serialized,   \* cookie translation: json.loads(serialize_cookie(...))['cookies']
    incoming,     \* cookie translation: the `cookies` argument of apply_cookies
    set_cookie_log, \* cookie translation: the Cookie objects handed to cookiejar.set_cookie
    jar_before,   \* cookie translation: the jar as it was when apply_cookies was called
    pc,           \* bridge: where the caller of the bridge is
    mode,         \* bridge: the operation in progress or last made
    self_url,     \* bridge: self._url of the instance
    JSDOM_VERSION, \* bridge: self._JSDOM_VERSION of the instance
    store,        \* bridge: the cookie jar of the caller
    call,         \* bridge: the arguments and local variables of the call
    proc,         \* bridge: the external process of the call
    js_trace,     \* bridge: what the generated script has executed in the process
    spawned,      \* bridge: the commands of the processes the call has spawned
    outcome,      \* bridge: how the call ended
    counts,       \* bridge: calls, probes and run processes of the instance so far
    f_pc,         \* resolver: where _real_extract is
    f_url,        \* resolver: the domain and the slug (faulio_url) of the url
    f_webpage,    \* resolver: the page _download_webpage fetched
    f_channels,   \* resolver: the list _download_json fetched
    f_result      \* resolver: what _real_extract returned or raised

cookie_vars == <<phase, cookiejar, url, serialized, incoming, set_cookie_log, jar_before>>

bridge_vars == <<pc, mode, self_url, JSDOM_VERSION, store, call, proc, js_trace,
                 spawned, outcome, counts>>

faulio_vars == <<f_pc, f_url, f_webpage, f_channels, f_result>>

vars == <<cookie_vars, bridge_vars, faulio_vars>>

----------------------------------------------------------------------------
(* Bounds *)

\* longest cookie list the host jar yields for the scope url
MaxCookies == 2
\* longest record list handed to apply_cookies
MaxRecords == 2
\* operations made on one bridge instance
MaxCalls == 2
\* longest channel list the API returns
MaxChannels == 2

----------------------------------------------------------------------------
(* Python values *)

None == <<"None">>

\* str.lstrip('.')
RECURSIVE LStripDot(_)
LStripDot(s) == IF s # <<>> /\ Head(s) = "." THEN LStripDot(Tail(s)) ELSE s

\* dict.get(k): the value, or None when the key is absent
Get(d, k) == IF k \in DOMAIN d THEN d[k] ELSE None

\* truth value of a text-or-None value: None and '' are false
Truthy(v) == v # None /\ v # <<>>

\* truth value of dict.get(k) for a key holding a bool
TruthyFlag(d, k) == k \in DOMAIN d /\ d[k] = TRUE

----------------------------------------------------------------------------
(* Cookie translation: DenoJSDomJSI.serialize_cookie / apply_cookies *)

\* the scope urls: no url (hostname None) and a url with hostname 'a'
Urls == {[hostname |-> None], [hostname |-> <<"a">>]}

\* urllib.parse.urlparse(url).hostname
UrlHostname(u) == u.hostname

\* path, secure and expires of the host cookies of the model
CookieAttrs == {[path |-> <<"/">>, secure |-> FALSE, expires |-> <<>>],
                [path |-> <<"/", "p">>, secure |-> TRUE, expires |-> <<1>>]}

\* http.cookiejar.Cookie objects a host jar can hold (expires: <<>> is None)
HostCookies ==
    {[name |-> n, value |-> v, domain |-> d, domain_initial_dot |-> dot,
      path |-> a.path, secure |-> a.secure, expires |-> a.expires] :
        n \in {<<>>, <<"n">>}, v \in {None, <<>>, <<"v">>},
        d \in {<<>>, <<"a">>, <<".", "a">>}, dot \in BOOLEAN, a \in CookieAttrs}

\* the jar keeps one cookie per (domain, path, name)
CookieKey(c) == <<c.domain, c.path, c.name>>

DistinctKeys(cs) == \A i, j \in DOMAIN cs : i # j => CookieKey(cs[i]) # CookieKey(cs[j])

SeqsUpTo(S, n) == UNION {[1..k -> S] : k \in 0..n}

\* the jars of the model: None, or a jar holding its cookies in iteration order
HostJars == {[none |-> TRUE, cookies |-> <<>>]} \cup
            {[none |-> FALSE, cookies |-> cs] :
                cs \in {l \in SeqsUpTo(HostCookies, MaxCookies) : DistinctKeys(l)}}

\* `not cookiejar`: None, or a jar of length 0 (CookieJar defines __len__)
NotCookiejar(jar) == jar.none \/ jar.cookies = <<>>

\* cookiejar.get_cookies_for_url(url): the jars of the model hold only
\* cookies that are sent to the scope url
get_cookies_for_url(jar, u) == jar.cookies

\* int_or_none(cookie.expires, invscale=1000)
int_or_none_invscale(e) == IF e = <<>> THEN <<>> ELSE <<e[1] * 1000>>

\* CookieToDict losing the path
CookieToDictNoPath(cookie, u) ==
    [key      |-> cookie.name,
     value    |-> cookie.value,
     domain   |-> IF LStripDot(cookie.domain) # <<>>
                  THEN LStripDot(cookie.domain) ELSE UrlHostname(u),
     expires  |-> int_or_none_invscale(cookie.expires),
     hostOnly |-> ~cookie.domain_initial_dot,
     secure   |-> cookie.secure,
     path     |-> <<"/">>]

\* one element of the list comprehension of serialize_cookie
CookieToDict(cookie, u) ==
    [key      |-> cookie.name,
     value    |-> cookie.value,
     domain   |-> IF LStripDot(cookie.domain) # <<>>
                  THEN LStripDot(cookie.domain) ELSE UrlHostname(u),
     expires  |-> int_or_none_invscale(cookie.expires),
     hostOnly |-> ~cookie.domain_initial_dot,
     secure   |-> cookie.secure,
     path     |-> cookie.path]

\* HasValue testing `cookie.value is not None`
HasValueNotNone(cookie) == cookie.value # None

\* the filter of the list comprehension: `if cookie.value`
HasValue(cookie) == Truthy(cookie.value)

RECURSIVE SerializeList(_, _)
SerializeList(cs, u) ==
    IF cs = <<>> THEN <<>>
    ELSE IF HasValue(Head(cs))
         THEN <<CookieToDict(Head(cs), u)>> \o SerializeList(Tail(cs), u)
         ELSE SerializeList(Tail(cs), u)

\* serialize_cookie(cookiejar, url): the 'cookies' list of the JSON it returns
serialize_cookie(jar, u) ==
    IF NotCookiejar(jar) THEN <<>>
    ELSE SerializeList(get_cookies_for_url(jar, u), u)

\* the guard of apply_cookies: all(cookie_dict.get(k) for k in ('key', 'value', 'domain'))
HasAllFields(d) == \A k \in {"key", "value", "domain"} : Truthy(Get(d, k))

\* the domain apply_cookies stores
ApplyDomain(d) == IF TruthyFlag(d, "hostOnly") THEN LStripDot(d.domain)
                  ELSE <<".">> \o LStripDot(d.domain)

\* cookie_dict.get('expires'), a number of milliseconds (<<>> is None)
GetExpires(d) == IF "expires" \in DOMAIN d THEN d.expires ELSE <<>>

\* unified_timestamp(...): the expiry in seconds, None when missing
unified_timestamp(e) == IF e = <<>> THEN <<>> ELSE <<e[1] \div 1000>>

\* the http.cookiejar.Cookie apply_cookies constructs from one record
CookieFromDict(d) ==
    [name |-> d.key, value |-> d.value, domain |-> ApplyDomain(d),
     domain_initial_dot |-> ~TruthyFlag(d, "hostOnly"),
     path |-> IF "path" \in DOMAIN d THEN d.path ELSE <<"/">>,
     secure |-> TruthyFlag(d, "secure"),
     expires |-> unified_timestamp(GetExpires(d))]

\* cookiejar.set_cookie(cookie): replaces the cookie of the same key, else adds it
RECURSIVE set_cookie(_, _)
set_cookie(cs, c) ==
    IF cs = <<>> THEN <<c>>
    ELSE IF CookieKey(Head(cs)) = CookieKey(c) THEN <<c>> \o Tail(cs)
         ELSE <<Head(cs)>> \o set_cookie(Tail(cs), c)

\* ApplyCalls with `break` in the place of `continue`
RECURSIVE ApplyCallsBreak(_)
ApplyCallsBreak(ds) ==
    IF ds = <<>> THEN <<>>
    ELSE IF ~HasAllFields(Head(ds)) THEN <<>>
         ELSE <<CookieFromDict(Head(ds))>> \o ApplyCallsBreak(Tail(ds))

\* the loop of apply_cookies: the Cookie objects handed to set_cookie, in order
RECURSIVE ApplyCalls(_)
ApplyCalls(ds) ==
    IF ds = <<>> THEN <<>>
    ELSE IF ~HasAllFields(Head(ds)) THEN ApplyCalls(Tail(ds))
         ELSE <<CookieFromDict(Head(ds))>> \o ApplyCalls(Tail(ds))

RECURSIVE SetAll(_, _)
SetAll(cs, calls) ==
    IF calls = <<>> THEN cs ELSE SetAll(set_cookie(cs, Head(calls)), Tail(calls))

\* apply_cookies(cookiejar, cookies): the jar afterwards
apply_cookies(jar, ds) ==
    IF NotCookiejar(jar) THEN jar
    ELSE [jar EXCEPT !.cookies = SetAll(jar.cookies, ApplyCalls(ds))]

\* the set_cookie calls apply_cookies(cookiejar, cookies) makes
apply_cookies_calls(jar, ds) == IF NotCookiejar(jar) THEN <<>> ELSE ApplyCalls(ds)

\* records the DOM library can hand back: any field may be absent
Opt(k, V) == {<<>>} \cup {k :> v : v \in V}

LibraryFlags == {<<>>, [hostOnly |-> TRUE, path |-> <<"/", "p">>],
                 [hostOnly |-> FALSE, secure |-> TRUE, expires |-> <<2000>>]}

LibraryRecords ==
    {k @@ v @@ d @@ f : k \in Opt("key", {<<"n">>}), v \in Opt("value", {<<>>, <<"v">>}),
                        d \in Opt("domain", {<<"a">>, <<".", ".", "a">>}),
                        f \in LibraryFlags}

\* the jars apply_cookies is called on directly
TargetJars == {[none |-> TRUE, cookies |-> <<>>], [none |-> FALSE, cookies |-> <<>>],
               [none |-> FALSE, cookies |->
                   <<[name |-> <<"n">>, value |-> <<"w">>, domain |-> <<"a">>,
                      domain_initial_dot |-> FALSE, path |-> <<"/", "p">>,
                      secure |-> FALSE, expires |-> <<>>]>>]}

\* the resolver variables where no resolver is in use
FaulioUnused ==
    /\ f_pc = "unused" /\ f_url = <<>> /\ f_webpage = <<>> /\ f_channels = <<>>
    /\ f_result = <<>>

\* the bridge variables where no bridge is in use
BridgeUnused ==
    /\ pc = "unused" /\ mode = "none" /\ self_url = [hostname |-> None]
    /\ JSDOM_VERSION = None /\ store = [none |-> TRUE, cookies |-> <<>>]
    /\ call = <<>> /\ proc = <<>> /\ js_trace = <<>> /\ spawned = <<>>
    /\ outcome = <<>> /\ counts = <<>>

CookieInit ==
    /\ \/ /\ phase = "host"
          /\ cookiejar \in HostJars
          /\ incoming = <<>>
       \/ /\ phase = "library"
          /\ cookiejar \in TargetJars
          /\ incoming \in SeqsUpTo(LibraryRecords, MaxRecords)
    /\ url = [hostname |-> None]
    /\ serialized = <<>>
    /\ set_cookie_log = <<>>
    /\ jar_before = cookiejar
    /\ BridgeUnused
    /\ FaulioUnused

\* serialize_cookie(cookiejar, url), the host jar translated for the library
SerializeCookie(u) ==
    /\ phase = "host"
    /\ url' = u
    /\ serialized' = serialize_cookie(cookiejar, u)
    /\ phase' = "serialized"
    /\ UNCHANGED <<cookiejar, incoming, set_cookie_log, jar_before, bridge_vars, faulio_vars>>

\* apply_cookies(cookiejar, cookies) on the list serialize_cookie produced
ApplySerialized ==
    /\ phase = "serialized"
    /\ incoming' = serialized
    /\ jar_before' = cookiejar
    /\ set_cookie_log' = apply_cookies_calls(cookiejar, serialized)
    /\ cookiejar' = apply_cookies(cookiejar, serialized)
    /\ phase' = "roundtrip"
    /\ UNCHANGED <<url, serialized, bridge_vars, faulio_vars>>

\* apply_cookies(cookiejar, cookies) on a list the library handed back
ApplyCookies ==
    /\ phase = "library"
    /\ jar_before' = cookiejar
    /\ set_cookie_log' = apply_cookies_calls(cookiejar, incoming)
    /\ cookiejar' = apply_cookies(cookiejar, incoming)
    /\ phase' = "applied"
    /\ UNCHANGED <<url, serialized, incoming, bridge_vars, faulio_vars>>

CookieNext ==
    \/ \E u \in Urls : SerializeCookie(u)
    \/ ApplySerialized
    \/ ApplyCookies

CookieSpec == CookieInit /\ [][CookieNext]_vars

----------------------------------------------------------------------------
(* Claims about the cookie translation *)

\* the domain of a cookie without its leading dots
EffectiveDomain(c) == LStripDot(c.domain)

\* the round trip handed the host store a cookie with c's name, value,
\* effective domain and path
Reproduced(c) ==
    \E i \in DOMAIN set_cookie_log :
        /\ set_cookie_log[i].name = c.name
        /\ set_cookie_log[i].value = c.value
        /\ EffectiveDomain(set_cookie_log[i]) = EffectiveDomain(c)
        /\ set_cookie_log[i].path = c.path

NoEmptyValue(cs) == \A i \in DOMAIN cs : Truthy(cs[i].value)

\* C1 as stated: after host->library->host, every cookie of a set without
\* empty values is reproduced with its name, value, effective domain and path.
C1_RoundTripAsStated ==
    (phase = "roundtrip" /\ NoEmptyValue(jar_before.cookies))
        => \A i \in DOMAIN jar_before.cookies : Reproduced(jar_before.cookies[i])

\* C1 amended: after host->library->host of a set without empty values, every
\* cookie whose name is not empty and whose domain is not empty once its
\* leading dots are removed is reproduced with its name, value, effective
\* domain and path.
C1_RoundTrip ==
    (phase = "roundtrip" /\ NoEmptyValue(jar_before.cookies))
        => \A i \in DOMAIN jar_before.cookies :
              (/\ jar_before.cookies[i].name # <<>>
               /\ EffectiveDomain(jar_before.cookies[i]) # <<>>)
                  => Reproduced(jar_before.cookies[i])

C1_Witness ==
    /\ phase = "roundtrip"
    /\ Len(jar_before.cookies) = 2
    /\ NoEmptyValue(jar_before.cookies)
    /\ \E i \in DOMAIN jar_before.cookies :
          /\ jar_before.cookies[i].name # <<>>
          /\ jar_before.cookies[i].domain = <<".", "a">>
          /\ ~jar_before.cookies[i].domain_initial_dot
          /\ jar_before.cookies[i].path = <<"/", "p">>
          /\ Reproduced(jar_before.cookies[i])
    /\ Len(set_cookie_log) = 2

\* C7: no record of the library-bound serialization has an empty value.
C7_NoEmptyValueSerialized ==
    phase \in {"serialized", "roundtrip"}
        => \A i \in DOMAIN serialized : Truthy(serialized[i].value)

C7_Witness ==
    /\ phase = "serialized"
    /\ Len(cookiejar.cookies) = 2
    /\ \E i \in DOMAIN cookiejar.cookies : cookiejar.cookies[i].value = <<>>
    /\ Len(serialized) = 1

\* the records of ds that have a key, a value and a domain
Complete(ds) == SelectSeq(ds, HasAllFields)

\* C6: apply_cookies hands to the host store the translation of exactly the
\* records that have key, value and domain, in order, and leaves the store as
\* it would be had the other records not been in the list.
C6_IncompleteDropped ==
    phase = "applied" =>
        /\ cookiejar = apply_cookies(jar_before, Complete(incoming))
        /\ Len(set_cookie_log) = IF NotCookiejar(jar_before) THEN 0
                                 ELSE Len(Complete(incoming))
        /\ \A i \in DOMAIN set_cookie_log :
              set_cookie_log[i] = CookieFromDict(Complete(incoming)[i])

C6_Witness ==
    /\ phase = "applied"
    /\ Len(incoming) = 2
    /\ ~HasAllFields(incoming[1])
    /\ HasAllFields(incoming[2])
    /\ Len(set_cookie_log) = 1
    /\ cookiejar # jar_before

----------------------------------------------------------------------------
(* Script Execution Bridge: DenoJSI and DenoJSDomJSI *)

\* the cookie translation variables where only the bridge is in use
CookieUnused ==
    /\ phase = "unused" /\ cookiejar = [none |-> TRUE, cookies |-> <<>>]
    /\ url = [hostname |-> None] /\ serialized = <<>> /\ incoming = <<>>
    /\ set_cookie_log = <<>> /\ jar_before = [none |-> TRUE, cookies |-> <<>>]

Whitespace == {" ", "\n"}

RECURSIVE LStrip(_)
LStrip(s) == IF s # <<>> /\ Head(s) \in Whitespace THEN LStrip(Tail(s)) ELSE s

RECURSIVE RStrip(_)
RStrip(s) == IF s # <<>> /\ s[Len(s)] \in Whitespace
             THEN RStrip(SubSeq(s, 1, Len(s) - 1)) ELSE s

\* str.strip()
Strip(s) == RStrip(LStrip(s))

\* what a process can leave on its standard output: text "x", line ends,
\* and "{json}", the text of one JSON document (its value is proc.doc)
StdOuts == {<<>>, <<"x", "\n">>, <<"{json}", "\n">>, <<"x", "\n", "{json}", "\n">>}

StdErrs == {<<>>, <<"e", "\n">>}

ReturnCodes == {0, 1, -9}

\* the console text the script collected
ConsoleTexts == {<<>>, <<"o">>}

\* the cookie lists jar.serializeSync().cookies of the script can hold
EmittedCookies ==
    {<<>>,
     <<[key |-> <<"n">>, value |-> <<"v">>, domain |-> <<"a">>, hostOnly |-> TRUE,
        path |-> <<"/">>]>>,
     <<[key |-> <<"n">>, value |-> <<>>, domain |-> <<"a">>],
       [key |-> <<"m">>, value |-> <<"v">>, domain |-> <<"a">>, secure |-> TRUE]>>}

\* the JSON documents the generated script prints: {stdout, cookies}
ScriptDocs == [stdout : ConsoleTexts, cookies : EmittedCookies]

\* JSON objects lacking one of the keys or both
PartialDocs == {<<>>, [stdout |-> <<"o">>],
                [cookies |-> <<[key |-> <<"m">>, value |-> <<"v">>, domain |-> <<"a">>]>>]}

\* how a process can end out of the generated script's control: return code,
\* standard output, standard error, and the JSON document in the output
AbortExits ==
    {[rc |-> -9, out |-> <<>>, err |-> <<>>, doc |-> <<>>],
     [rc |-> 1, out |-> <<"x", "\n">>, err |-> <<"e", "\n">>, doc |-> <<>>],
     [rc |-> 0, out |-> <<>>, err |-> <<>>, doc |-> <<>>],
     [rc |-> 0, out |-> <<"x", "\n">>, err |-> <<"e", "\n">>, doc |-> <<>>]}
    \cup [rc : {0}, out : {<<"{json}", "\n">>}, err : {<<>>}, doc : PartialDocs]
    \cup [rc : {0, 1}, out : {<<"{json}", "\n">>}, err : {<<"e", "\n">>},
          doc : {[stdout |-> <<"o">>, cookies |->
                    <<[key |-> <<"m">>, value |-> <<"v">>, domain |-> <<"a">>]>>]}]

\* json.loads(result) succeeds: the text is one JSON document
Parseable(result) == result = <<"{json}">>

\* a line `deno info` prints: whether it holds _JSDOM_URL, and what
\* r'@([\d\.]+)' finds in it (None when it finds nothing)

\* the outputs of `deno info` of the model
InfoOutputs ==
    {<<>>,
     <<[has_url |-> FALSE, at |-> <<"9">>]>>,
     <<[has_url |-> TRUE, at |-> None], [has_url |-> TRUE, at |-> <<"2", "3">>]>>,
     <<[has_url |-> FALSE, at |-> <<"9">>], [has_url |-> TRUE, at |-> <<"2", "3">>]>>}

\* next((line for line in result.splitlines() if self._JSDOM_URL in line), '')
RECURSIVE VersionLine(_)
VersionLine(lines) ==
    IF lines = <<>> THEN [has_url |-> FALSE, at |-> None]
    ELSE IF Head(lines).has_url THEN Head(lines) ELSE VersionLine(Tail(lines))

\* the value _ensure_jsdom leaves in self._JSDOM_VERSION
EnsuredVersion(old, lines) ==
    IF VersionLine(lines).at # None THEN VersionLine(lines).at ELSE old

\* the html documents of the model: markup and inline script blocks
Div == [tag |-> "div", src |-> ""]
Script(t) == [tag |-> "script", src |-> t]
Htmls == {<<Div>>, <<Script("s2"), Div, Script("s1")>>}

IsScript(node) == node.tag = "script"
NotScript(node) == node.tag # "script"

\* extract_script_tags(html): the html without its script blocks, and their
\* sources in document order
extract_script_tags(html) ==
    [html |-> SelectSeq(html, NotScript),
     inline_scripts |-> [i \in DOMAIN SelectSeq(html, IsScript) |->
                            SelectSeq(html, IsScript)[i].src]]

\* Wrapper splicing the script in without the try/catch
WrapperUnguarded(script) == [script |-> script, guarded |-> FALSE]

\* 'try { %s } catch (e) {}' % script
Wrapper(script) == [script |-> script, guarded |-> TRUE]

\* wrapper_scripts, in the order of '\n'.join
wrapper_scripts(inline_scripts) ==
    [i \in DOMAIN inline_scripts |-> Wrapper(inline_scripts[i])]

NoOutcome == [kind |-> "none", error |-> "", cause |-> "", message |-> <<>>,
              value |-> None, parsed |-> FALSE, warning |-> <<>>]

Raised(error, cause, message, parsed) ==
    [kind |-> "raised", error |-> error, cause |-> cause, message |-> message,
     value |-> None, parsed |-> parsed, warning |-> <<>>]

Returned(value, parsed, warning) ==
    [kind |-> "returned", error |-> "", cause |-> "", message |-> <<>>,
     value |-> value, parsed |-> parsed, warning |-> warning]

NoProc == [status |-> "none", cmd |-> "", step |-> "", idx |-> 0, rc |-> 0,
           stdout |-> <<>>, stderr |-> <<>>, doc |-> <<>>, lines |-> <<>>]

NoCall == [html |-> <<>>, jar_given |-> FALSE, cached |-> FALSE, local_jar_none |-> TRUE,
           dom_html |-> <<>>, wrappers |-> <<>>, seed |-> <<>>,
           store_before |-> [none |-> TRUE, cookies |-> <<>>],
           info_ok |-> FALSE, info_lines |-> <<>>]

\* the call's record when it begins: the store and the cache as they are
NewCall == [NoCall EXCEPT !.store_before = store, !.cached = Truthy(JSDOM_VERSION)]

NoCounts == [calls |-> 0, probes |-> 0, runs |-> 0]

\* `not self._url`
NotUrl(u) == u.hostname = None

\* run_deno testing `returncode > 0`
run_deno_positive(rc, out, err) ==
    IF rc > 0
    THEN [raised |-> TRUE,
          message |-> <<"Failed with returncode ", ToString(rc), ":\n">> \o err,
          warning |-> <<>>, result |-> None]
    ELSE [raised |-> FALSE, message |-> <<>>,
          warning |-> IF err # <<>> THEN <<"JS console error msg:\n">> \o Strip(err)
                      ELSE <<>>,
          result |-> Strip(out)]

\* _run_deno after Popen.run returned (stdout, stderr, returncode)
run_deno(rc, out, err) ==
    IF rc # 0
    THEN [raised |-> TRUE,
          message |-> <<"Failed with returncode ", ToString(rc), ":\n">> \o err,
          warning |-> <<>>, result |-> None]
    ELSE [raised |-> FALSE, message |-> <<>>,
          warning |-> IF err # <<>> THEN <<"JS console error msg:\n">> \o Strip(err)
                      ELSE <<>>,
          result |-> Strip(out)]

\* _run_deno when Popen.run raised: the binary cannot be started ("spawn"),
\* or the process was killed because the timeout elapsed ("timeout")
UnableToRun(cause) == Raised("ExtractorError", cause, <<"Unable to run Deno binary">>, FALSE)

BridgeInit ==
    /\ CookieUnused
    /\ FaulioUnused
    /\ pc = "idle" /\ mode = "none"
    /\ self_url \in Urls
    /\ JSDOM_VERSION = None
    /\ store \in {jar \in TargetJars : ~jar.none}
    /\ call = NewCall /\ proc = NoProc /\ js_trace = <<>> /\ spawned = <<>>
    /\ outcome = NoOutcome /\ counts = NoCounts

CanCall == pc \in {"idle", "returned", "raised"} /\ counts.calls < MaxCalls

\* cmd = [self.exe, 'run', ...]; self._run_deno(cmd) up to the wait for the process
SpawnRun(ok, first_step, sp, cnt) ==
    IF ok
    THEN /\ pc' = "blocked"
         /\ proc' = [NoProc EXCEPT !.status = "running", !.cmd = "run", !.step = first_step]
         /\ spawned' = Append(sp, "run")
         /\ outcome' = NoOutcome
         /\ counts' = IF first_step = "setup" THEN [cnt EXCEPT !.runs = @ + 1] ELSE cnt
    ELSE /\ pc' = "raised"
         /\ proc' = NoProc
         /\ spawned' = sp
         /\ outcome' = UnableToRun("spawn")
         /\ counts' = cnt

\* DenoJSI.execute up to the wait for the process
ExecutePlain(ok) ==
    /\ CanCall
    /\ mode' = "plain"
    /\ call' = NewCall
    /\ js_trace' = <<>>
    /\ SpawnRun(ok, "plain", <<>>, [counts EXCEPT !.calls = @ + 1])
    /\ UNCHANGED <<cookie_vars, faulio_vars, self_url, JSDOM_VERSION, store>>

\* DenoJSDomJSI.execute from `if cookiejar and not self._url` to the script
PreparedCall(c) ==
    LET local_none == \/ ~c.jar_given
                      \/ (~NotCookiejar(store) /\ NotUrl(self_url))
        local_jar == IF local_none THEN [none |-> TRUE, cookies |-> <<>>] ELSE store
        ex == extract_script_tags(c.html)
    IN  [c EXCEPT !.local_jar_none = local_none,
                  !.dom_html = ex.html,
                  !.wrappers = wrapper_scripts(ex.inline_scripts),
                  !.seed = serialize_cookie(local_jar, self_url)]

\* _ensure_jsdom up to the wait for the `deno info` process
SpawnInfo(ok, cnt) ==
    IF ok
    THEN /\ pc' = "blocked"
         /\ proc' = [NoProc EXCEPT !.status = "running", !.cmd = "info"]
         /\ spawned' = <<"info">>
         /\ outcome' = NoOutcome
         /\ counts' = [cnt EXCEPT !.probes = @ + 1]
    ELSE /\ pc' = "raised"
         /\ proc' = NoProc
         /\ spawned' = <<>>
         /\ outcome' = UnableToRun("spawn")
         /\ counts' = cnt

\* VersionCached without the early return of _ensure_jsdom
VersionCachedNever == FALSE

\* VersionCached taking the class attribute for a cached version
VersionCachedAlways == TRUE

\* self._JSDOM_VERSION is set: _ensure_jsdom returns at once
VersionCached == Truthy(JSDOM_VERSION)

\* DenoJSDomJSI.execute up to the wait for its first process
ExecuteDom(html, jar_given, ok) ==
    /\ CanCall
    /\ mode' = "dom"
    /\ js_trace' = <<>>
    /\ LET c == [NewCall EXCEPT !.html = html, !.jar_given = jar_given]
           cnt == [counts EXCEPT !.calls = @ + 1]
       IN  IF VersionCached
           THEN /\ call' = PreparedCall(c)
                /\ SpawnRun(ok, "setup", <<>>, cnt)
           ELSE /\ call' = c
                /\ SpawnInfo(ok, cnt)
    /\ UNCHANGED <<cookie_vars, faulio_vars, self_url, JSDOM_VERSION, store>>

\* DenoJSDomJSI.report_version, as far as the bridge's processes go
ReportVersion(ok) ==
    /\ CanCall
    /\ mode' = "report"
    /\ js_trace' = <<>>
    /\ call' = NewCall
    /\ LET cnt == [counts EXCEPT !.calls = @ + 1]
       IN  IF VersionCached
           THEN /\ pc' = "returned" /\ proc' = NoProc /\ spawned' = <<>>
                /\ outcome' = Returned(None, FALSE, <<>>) /\ counts' = cnt
           ELSE SpawnInfo(ok, cnt)
    /\ UNCHANGED <<cookie_vars, faulio_vars, self_url, JSDOM_VERSION, store>>

\* Popen.run raises because the timeout elapsed: the process is killed
Timeout ==
    /\ pc = "blocked" /\ proc.status = "running"
    /\ proc' = [proc EXCEPT !.status = "killed"]
    /\ pc' = "raised"
    /\ outcome' = UnableToRun("timeout")
    /\ UNCHANGED <<cookie_vars, faulio_vars, mode, self_url, JSDOM_VERSION, store, call, js_trace,
                   spawned, counts>>

\* the `deno info` process exits; _ensure_jsdom and its caller go on
InfoExit(rc, err, lines, ok) ==
    /\ pc = "blocked" /\ proc.status = "running" /\ proc.cmd = "info"
    /\ LET r == run_deno(rc, <<>>, err)
           exited == [proc EXCEPT !.status = "exited", !.rc = rc, !.stderr = err,
                                  !.lines = lines]
       IN  IF r.raised
           THEN /\ pc' = "raised" /\ proc' = exited
                /\ outcome' = Raised("ExtractorError", "returncode", r.message, FALSE)
                /\ UNCHANGED <<JSDOM_VERSION, call, spawned, counts>>
           ELSE /\ JSDOM_VERSION' = EnsuredVersion(JSDOM_VERSION, lines)
                /\ IF mode = "report"
                   THEN /\ pc' = "returned" /\ proc' = exited
                        /\ outcome' = Returned(None, FALSE, r.warning)
                        /\ call' = [call EXCEPT !.info_ok = TRUE, !.info_lines = lines]
                        /\ UNCHANGED <<spawned, counts>>
                   ELSE /\ call' = [PreparedCall(call) EXCEPT !.info_ok = TRUE,
                                                             !.info_lines = lines]
                        /\ SpawnRun(ok, "setup", spawned, counts)
    /\ UNCHANGED <<cookie_vars, faulio_vars, mode, self_url, store, js_trace>>

Event(ev, script, threw) == [ev |-> ev, script |-> script, threw |-> threw]

\* the process ends by itself
Finished(p, rc, out, err, doc) ==
    [p EXCEPT !.status = "finished", !.step = "", !.rc = rc, !.stdout = out,
              !.stderr = err, !.doc = doc]

InRun(step) == pc = "blocked" /\ proc.status = "running" /\ proc.cmd = "run"
               /\ proc.step = step

\* plain mode: init script, navigator override and jscode run in the process
PlainScript(rc, out, err) ==
    /\ InRun("plain")
    /\ js_trace' = <<Event("init", "", FALSE), Event("caller", "", rc # 0)>>
    /\ proc' = Finished(proc, rc, out, err, <<>>)
    /\ UNCHANGED <<cookie_vars, faulio_vars, pc, mode, self_url, JSDOM_VERSION, store, call, spawned,
                   outcome, counts>>

\* DOM mode: init script, import of jsdom and the function that sets the DOM up
JsSetup(ok) ==
    /\ InRun("setup")
    /\ js_trace' = <<Event("init", "", FALSE), Event("dom_setup", "", ~ok)>>
    /\ proc' = IF ~ok THEN Finished(proc, 1, <<>>, <<"e", "\n">>, <<>>)
               ELSE IF call.wrappers = <<>> THEN [proc EXCEPT !.step = "caller"]
               ELSE [proc EXCEPT !.step = "inline", !.idx = 1]
    /\ UNCHANGED <<cookie_vars, faulio_vars, pc, mode, self_url, JSDOM_VERSION, store, call, spawned,
                   outcome, counts>>

\* whether the module goes on after a wrapper whose script threw or not
GoesOn(wrapper, threw) == wrapper.guarded \/ ~threw

\* DOM mode: the next of wrapper_scripts runs
JsInline(threw) ==
    /\ InRun("inline")
    /\ LET w == call.wrappers[proc.idx]
       IN  /\ js_trace' = Append(js_trace, Event("inline", w.script, threw))
           /\ proc' = IF ~GoesOn(w, threw) THEN Finished(proc, 1, <<>>, <<"e", "\n">>, <<>>)
                      ELSE IF proc.idx = Len(call.wrappers)
                           THEN [proc EXCEPT !.step = "caller"]
                      ELSE [proc EXCEPT !.idx = @ + 1]
    /\ UNCHANGED <<cookie_vars, faulio_vars, pc, mode, self_url, JSDOM_VERSION, store, call, spawned,
                   outcome, counts>>

\* DOM mode: console capture begins, jscode runs, `finally` prints the JSON
JsCaller(threw, wrote, doc) ==
    /\ InRun("caller")
    /\ js_trace' = js_trace \o <<Event("capture", "", FALSE), Event("caller", "", threw),
                                 Event("emit", "", FALSE)>>
    /\ proc' = Finished(proc, IF threw THEN 1 ELSE 0,
                        (IF wrote THEN <<"x", "\n">> ELSE <<>>) \o <<"{json}", "\n">>,
                        IF threw \/ wrote THEN <<"e", "\n">> ELSE <<>>, doc)
    /\ UNCHANGED <<cookie_vars, faulio_vars, pc, mode, self_url, JSDOM_VERSION, store, call, spawned,
                   outcome, counts>>

\* DOM mode: the process ends out of the script's control (a panic of the
\* runtime, a signal, an exit the executed code asks for)
JsAbort(x) ==
    /\ pc = "blocked" /\ proc.status = "running" /\ proc.cmd = "run"
    /\ proc.step \in {"setup", "inline", "caller"}
    /\ proc' = Finished(proc, x.rc, x.out, x.err, x.doc)
    /\ UNCHANGED <<cookie_vars, faulio_vars, pc, mode, self_url, JSDOM_VERSION, store, call, js_trace,
                   spawned, outcome, counts>>

\* ExecuteResult whose parse error leaves the output out of its message
ExecuteResultNoOutput(r) ==
    IF r.raised THEN [store |-> store,
                      outcome |-> Raised("ExtractorError", "returncode", r.message, FALSE)]
    ELSE IF mode = "plain" THEN [store |-> store,
                                 outcome |-> Returned(r.result, FALSE, r.warning)]
    ELSE IF ~Parseable(r.result)
         THEN [store |-> store,
               outcome |-> Raised("ExtractorError", "parse",
                                  <<"Failed to parse JSON output from Deno: ">>, TRUE)]
    ELSE IF "cookies" \notin DOMAIN proc.doc
         THEN [store |-> store, outcome |-> Raised("KeyError", "cookies", <<>>, TRUE)]
    ELSE LET applied == IF call.local_jar_none THEN store
                        ELSE apply_cookies(store, proc.doc.cookies)
         IN  IF "stdout" \notin DOMAIN proc.doc
             THEN [store |-> applied, outcome |-> Raised("KeyError", "stdout", <<>>, TRUE)]
             ELSE [store |-> applied,
                   outcome |-> Returned(proc.doc.stdout, TRUE, r.warning)]

\* ExecuteResult applying the cookies of the output before it looks at the
\* return code
ExecuteResultApplyFirst(r) ==
    LET applied == IF call.local_jar_none \/ "cookies" \notin DOMAIN proc.doc THEN store
                   ELSE apply_cookies(store, proc.doc.cookies)
    IN  IF r.raised
        THEN [store |-> applied,
              outcome |-> Raised("ExtractorError", "returncode", r.message, FALSE)]
        ELSE IF mode = "plain" THEN [store |-> store,
                                     outcome |-> Returned(r.result, FALSE, r.warning)]
        ELSE IF ~Parseable(r.result)
             THEN [store |-> store,
                   outcome |-> Raised("ExtractorError", "parse",
                                      <<"Failed to parse JSON output from Deno: ">>
                                          \o r.result, TRUE)]
        ELSE IF "cookies" \notin DOMAIN proc.doc
             THEN [store |-> store, outcome |-> Raised("KeyError", "cookies", <<>>, TRUE)]
        ELSE IF "stdout" \notin DOMAIN proc.doc
             THEN [store |-> applied, outcome |-> Raised("KeyError", "stdout", <<>>, TRUE)]
             ELSE [store |-> applied,
                   outcome |-> Returned(proc.doc.stdout, TRUE, r.warning)]

\* execute after self._run_deno(cmd) got the process's exit
ExecuteResult(r) ==
    IF r.raised THEN [store |-> store,
                      outcome |-> Raised("ExtractorError", "returncode", r.message, FALSE)]
    ELSE IF mode = "plain" THEN [store |-> store,
                                 outcome |-> Returned(r.result, FALSE, r.warning)]
    ELSE IF ~Parseable(r.result)
         THEN [store |-> store,
               outcome |-> Raised("ExtractorError", "parse",
                                  <<"Failed to parse JSON output from Deno: ">> \o r.result,
                                  TRUE)]
    ELSE IF "cookies" \notin DOMAIN proc.doc
         THEN [store |-> store, outcome |-> Raised("KeyError", "cookies", <<>>, TRUE)]
    ELSE LET applied == IF call.local_jar_none THEN store
                        ELSE apply_cookies(store, proc.doc.cookies)
         IN  IF "stdout" \notin DOMAIN proc.doc
             THEN [store |-> applied, outcome |-> Raised("KeyError", "stdout", <<>>, TRUE)]
             ELSE [store |-> applied,
                   outcome |-> Returned(proc.doc.stdout, TRUE, r.warning)]

\* the run process has exited: Popen.run returns and execute goes on to its end
RunExit ==
    /\ pc = "blocked" /\ proc.status = "finished"
    /\ LET res == ExecuteResult(run_deno(proc.rc, proc.stdout, proc.stderr))
       IN  /\ store' = res.store
           /\ outcome' = res.outcome
           /\ pc' = res.outcome.kind
    /\ proc' = [proc EXCEPT !.status = "exited"]
    /\ UNCHANGED <<cookie_vars, faulio_vars, mode, self_url, JSDOM_VERSION, call, js_trace, spawned,
                   counts>>

BridgeNext ==
    \/ \E ok \in BOOLEAN : ExecutePlain(ok)
    \/ \E html \in Htmls, jar_given \in BOOLEAN, ok \in BOOLEAN : ExecuteDom(html, jar_given, ok)
    \/ \E ok \in BOOLEAN : ReportVersion(ok)
    \/ Timeout
    \/ \E rc \in ReturnCodes, err \in StdErrs, lines \in InfoOutputs, ok \in BOOLEAN :
          InfoExit(rc, err, lines, ok)
    \/ \E rc \in ReturnCodes, out \in StdOuts, err \in StdErrs : PlainScript(rc, out, err)
    \/ \E ok \in BOOLEAN : JsSetup(ok)
    \/ \E threw \in BOOLEAN : JsInline(threw)
    \/ \E threw \in BOOLEAN, wrote \in BOOLEAN, doc \in ScriptDocs : JsCaller(threw, wrote, doc)
    \/ \E x \in AbortExits : JsAbort(x)
    \/ RunExit

BridgeSpec == BridgeInit /\ [][BridgeNext]_vars

----------------------------------------------------------------------------
(* Stream Resolver: FaulioLiveIE._real_extract *)

\* JSON values of the channel list
JStr(t) == [t |-> "str", s |-> t, n |-> 0]
JInt(n) == [t |-> "int", s |-> <<>>, n |-> n]
JNull == [t |-> "null", s |-> <<>>, n |-> 0]

\* the decimal digits of a natural number
RECURSIVE Digits(_)
Digits(n) == IF n < 10 THEN <<ToString(n)>> ELSE Digits(n \div 10) \o <<ToString(n % 10)>>

\* str(v) of a JSON value
PyStr(v) == IF v.t = "str" THEN v.s
            ELSE IF v.t = "int" THEN Digits(v.n)
            ELSE <<"N", "o", "n", "e">>

\* c.get(k) of a channel: JSON null (None) when the key is absent
ChannelGet(c, k) == IF k \in DOMAIN c THEN c[k] ELSE JNull

\* the urls of the model: _VALID_URL matched, with its two groups
FaulioUrls == [domain : {<<"a", "l">>, <<"m", "a">>},
               faulio_url : {<<"t", "v">>, <<"1">>, <<"N", "o", "n", "e">>}]

\* the pages of the model: `api_base` is group 1 of the match of
\* TRANSLATIONS_API_URL\s*:\s*"(https?://[^"]+)", None when nothing matches
Webpages == {[api_base |-> None], [api_base |-> <<"h", "/", "v", "1">>]}

\* the channels of the model
Channels ==
    {<<>>} \cup
    {u @@ i @@ st @@ [title |-> <<"T">>] :
        u \in Opt("url", {JStr(<<"t", "v">>), JInt(1)}),
        i \in {[id |-> JInt(1)], [id |-> JInt(2)]},
        st \in Opt("streams", {[hls |-> <<>>], [hls |-> <<"m", "3">>]})}

\* next((c for c in channels_json if str(c.get('url')) == faulio_url), None);
\* <<>> stands for None as well as for the empty channel, both being false
RECURSIVE FindChannel(_, _)
FindChannel(channels, faulio_url) ==
    IF channels = <<>> THEN <<>>
    ELSE IF PyStr(ChannelGet(Head(channels), "url")) = faulio_url THEN Head(channels)
         ELSE FindChannel(Tail(channels), faulio_url)

\* traverse_obj(channel_json, ('streams', 'hls')): None when a key is absent
HlsUrl(c) == IF "streams" \in DOMAIN c /\ "hls" \in DOMAIN c.streams THEN c.streams.hls
             ELSE None

ExtractorError(message) == [kind |-> "ExtractorError", message |-> message]

\* the headers dict
Headers(domain) == [Referer |-> <<"https://">> \o domain \o <<"/">>,
                    Origin |-> <<"https://">> \o domain]

\* _real_extract from `channel_json = next(...)` to its end
Resolve(u, channels) ==
    LET channel_json == FindChannel(channels, u.faulio_url)
    IN  IF channel_json = <<>>
        THEN ExtractorError(<<"Channel not found in API">>)
        ELSE IF ~Truthy(HlsUrl(channel_json))
        THEN ExtractorError(<<"HLS stream not found for channel">>)
        ELSE [kind |-> "info",
              id |-> PyStr(ChannelGet(channel_json, "id")),
              title |-> IF "title" \in DOMAIN channel_json THEN channel_json.title ELSE None,
              description |-> IF "description" \in DOMAIN channel_json
                              THEN channel_json.description ELSE None,
              formats |-> [m3u8 |-> HlsUrl(channel_json), ext |-> "mp4", live |-> TRUE,
                           headers |-> Headers(u.domain)],
              is_live |-> TRUE,
              http_headers |-> Headers(u.domain),
              channel |-> channel_json]

FaulioInit ==
    /\ CookieUnused
    /\ BridgeUnused
    /\ f_pc = "start"
    /\ f_url \in FaulioUrls
    /\ f_webpage = <<>> /\ f_channels = <<>> /\ f_result = <<>>

\* webpage = self._download_webpage(url, faulio_url)
DownloadWebpage(page) ==
    /\ f_pc = "start"
    /\ f_webpage' = page
    /\ f_pc' = "webpage"
    /\ UNCHANGED <<cookie_vars, bridge_vars, f_url, f_channels, f_result>>

\* the search of the marker, then channels_json = self._download_json(...)
DownloadChannels(channels) ==
    /\ f_pc = "webpage"
    /\ IF f_webpage.api_base = None
       THEN /\ f_result' = ExtractorError(<<"Could not find TRANSLATIONS_API_URL in the page">>)
            /\ f_pc' = "done"
            /\ UNCHANGED f_channels
       ELSE /\ f_channels' = channels
            /\ f_pc' = "channels"
            /\ UNCHANGED f_result
    /\ UNCHANGED <<cookie_vars, bridge_vars, f_url, f_webpage>>

\* the rest of _real_extract
ResolveChannel ==
    /\ f_pc = "channels"
    /\ f_result' = Resolve(f_url, f_channels)
    /\ f_pc' = "done"
    /\ UNCHANGED <<cookie_vars, bridge_vars, f_url, f_webpage, f_channels>>

FaulioNext ==
    \/ \E page \in Webpages : DownloadWebpage(page)
    \/ \E channels \in SeqsUpTo(Channels, MaxChannels) : DownloadChannels(channels)
    \/ ResolveChannel

FaulioSpec == FaulioInit /\ [][FaulioNext]_vars

----------------------------------------------------------------------------
(* Claims about the resolver *)

\* the channel has a url, and its text is the slug
UrlEquals(c, slug) == "url" \in DOMAIN c /\ c.url.t # "null" /\ PyStr(c.url) = slug

\* the channels of the list whose url is the slug, in the order of the list
Matching == SelectSeq(f_channels, LAMBDA c : UrlEquals(c, f_url.faulio_url))

\* C8: _real_extract raises when the marker is absent, when no channel has
\* the slug for url and when the matched channel has no HLS url; otherwise it
\* returns the descriptor of the first channel whose url is the slug.
C8_NotFoundOrFirstMatch ==
    f_pc = "done" =>
        IF \/ f_webpage.api_base = None
           \/ Matching = <<>>
           \/ ~Truthy(HlsUrl(Matching[1]))
        THEN f_result.kind = "ExtractorError"
        ELSE /\ f_result.kind = "info"
             /\ f_result.channel = Matching[1]
             /\ f_result.id = PyStr(Matching[1].id)
             /\ f_result.formats.m3u8 = Matching[1].streams.hls

----------------------------------------------------------------------------
(* Claims about the bridge *)

\* text s occurs in text t
Contains(t, s) == \E i \in 1..(Len(t) - Len(s) + 1) : SubSeq(t, i, i + Len(s) - 1) = s

\* the text is a JSON document, surrounded by whitespace at most
JsonText(out) ==
    \E i \in DOMAIN out :
        /\ out[i] = "{json}"
        /\ \A j \in DOMAIN out \ {i} : out[j] \in Whitespace

CallEnded == pc \in {"returned", "raised"} /\ mode \in {"plain", "dom"}

InlineEvent(e) == e.ev = "inline"

\* the inline blocks of the call's html, in document order
SourceScripts == extract_script_tags(call.html).inline_scripts

\* C2, order: in DOM mode the inline blocks run in source order, each once,
\* after the DOM was set up; the caller's script runs only after all of them.
C2_Order ==
    mode = "dom" =>
        /\ Len(SelectSeq(js_trace, InlineEvent)) <= Len(SourceScripts)
        /\ \A i \in DOMAIN SelectSeq(js_trace, InlineEvent) :
              SelectSeq(js_trace, InlineEvent)[i].script = SourceScripts[i]
        /\ \A i \in DOMAIN js_trace :
              /\ js_trace[i].ev = "inline" =>
                    \E k \in 1..(i - 1) : js_trace[k].ev = "dom_setup" /\ ~js_trace[k].threw
              /\ js_trace[i].ev = "caller" =>
                    /\ Len(SelectSeq(SubSeq(js_trace, 1, i - 1), InlineEvent))
                          = Len(SourceScripts)
                    /\ \E k \in 1..(i - 1) : js_trace[k].ev = "dom_setup"

\* C2, failures: when an inline block has run, whether it threw or not, the
\* process is still running, at the next inline block or at the caller's script.
C2_GoesOn ==
    (InRun("inline") /\ js_trace' # js_trace)
        => /\ proc'.status = "running"
           /\ proc'.step = IF proc.idx = Len(SourceScripts) THEN "caller" ELSE "inline"

C3_OneProcessAsStated ==
    (CallEnded /\ outcome.cause # "spawn") => Len(spawned) = 1

\* C3 amended: a call ends only when no process of it is alive; it spawns at
\* most one `run` process, and exactly one when it returns; a plain call, and a
\* DOM call made with the jsdom version cached, spawn nothing else; a DOM call
\* made with no version cached spawns the `info` probe first, and the run
\* process after it.
C3_Processes ==
    /\ (pc = "blocked") = (proc.status \in {"running", "finished"})
    /\ CallEnded =>
          /\ spawned \in {<<>>, <<"run">>, <<"info">>, <<"info", "run">>}
          /\ spawned = <<>> => (outcome.kind = "raised" /\ outcome.cause = "spawn")
          /\ (mode = "plain" \/ call.cached) => spawned \in {<<>>, <<"run">>}
          /\ (mode = "dom" /\ ~call.cached) => spawned \in {<<>>, <<"info">>, <<"info", "run">>}
          /\ spawned = <<"info">> => outcome.kind = "raised"
          /\ outcome.kind = "returned" => spawned \in {<<"run">>, <<"info", "run">>}

C3_Witness ==
    /\ CallEnded /\ mode = "dom" /\ ~call.cached /\ counts.calls = 1
    /\ outcome.kind = "returned"
    /\ spawned = <<"info", "run">>

\* C4: when a process of the call exits with a non-zero return code the call
\* raises ExtractorError 'Failed with returncode ...' whose message holds the
\* standard error text; nothing is parsed and nothing is returned.
C4_NonZeroExit ==
    (proc.status = "exited" /\ proc.rc # 0) =>
        /\ pc = "raised"
        /\ outcome.error = "ExtractorError"
        /\ Head(outcome.message) = "Failed with returncode "
        /\ Contains(outcome.message, proc.stderr)
        /\ outcome.value = None
        /\ ~outcome.parsed

C4_Witness ==
    /\ proc.status = "exited" /\ proc.rc = 1 /\ proc.cmd = "run" /\ mode = "dom"
    /\ proc.stderr = <<"e", "\n">>
    /\ proc.stdout = <<"{json}", "\n">>
    /\ pc = "raised"

\* a DOM-mode run process has exited with return code zero and an output that
\* is no JSON document
UnparseableExit ==
    /\ proc.status = "exited" /\ proc.cmd = "run" /\ mode = "dom"
    /\ proc.rc = 0 /\ ~JsonText(proc.stdout)

IsParseFailure ==
    /\ pc = "raised"
    /\ outcome.error = "ExtractorError"
    /\ Head(outcome.message) = "Failed to parse JSON output from Deno: "
    /\ outcome.value = None

\* C5 as stated: the message of the parse failure holds the raw output text.
C5_RawOutputAsStated ==
    UnparseableExit => (IsParseFailure /\ Contains(outcome.message, proc.stdout))

\* C5 amended: the message of the parse failure holds the output text with
\* its leading and trailing whitespace removed.
C5_ParseFailure ==
    UnparseableExit => (IsParseFailure /\ Contains(outcome.message, Strip(proc.stdout)))

C5_Witness ==
    /\ UnparseableExit
    /\ proc.stdout = <<"x", "\n", "{json}", "\n">>
    /\ outcome.message = <<"Failed to parse JSON output from Deno: ", "x", "\n", "{json}">>

\* C9 as stated: once an execution has reached its run process, no execution
\* runs the probe again.
C9_NoProbeAgainAsStated ==
    [][counts.runs >= 1 => counts'.probes = counts.probes]_vars

\* the probe of the call exited with code zero and found a version
ProbeFoundVersion == call.info_ok /\ VersionLine(call.info_lines).at # None

\* C9 amended: a DOM-mode run process is spawned only after a probe has run
\* on the instance; a version the probe finds is cached; a cached version
\* stays as it is and no probe runs while there is one.
C9_ProbeCached ==
    /\ []((mode = "dom" /\ proc.cmd = "run") => counts.probes >= 1)
    /\ [](ProbeFoundVersion => JSDOM_VERSION = VersionLine(call.info_lines).at)
    /\ [][Truthy(JSDOM_VERSION) =>
            (JSDOM_VERSION' = JSDOM_VERSION /\ counts'.probes = counts.probes)]_vars

C9_Witness ==
    /\ counts.calls = 2 /\ counts.probes = 1 /\ counts.runs = 2
    /\ mode = "dom" /\ call.cached /\ pc = "returned"
    /\ JSDOM_VERSION = <<"2", "3">>

\* C10: the store of the caller differs from what it was when the call began
\* only after a DOM-mode run process exited with code zero and its output was
\* parsed as JSON; when the call fails because the binary cannot be run, on
\* timeout, on a non-zero exit or on unparseable output, the store is as it
\* was and nothing is returned.
C10_StoreFrame ==
    /\ store # call.store_before =>
          /\ mode = "dom" /\ proc.cmd = "run" /\ proc.status = "exited"
          /\ proc.rc = 0 /\ JsonText(proc.stdout) /\ outcome.parsed
    /\ (pc = "raised" /\ outcome.cause \in {"spawn", "timeout", "returncode", "parse"}) =>
          /\ store = call.store_before
          /\ outcome.value = None

C10_Witness ==
    /\ mode = "dom" /\ pc = "raised" /\ outcome.cause = "returncode"
    /\ proc.cmd = "run" /\ proc.stdout = <<"{json}", "\n">>
    /\ "cookies" \in DOMAIN proc.doc /\ proc.doc.cookies # <<>>
    /\ call.jar_given /\ ~call.local_jar_none
    /\ store = call.store_before
    /\ store.cookies # <<>>

====
